---- MODULE Spec2Model ----
(***************************************************************************)
(* numerixpy: finite-difference differentiation (Diff, Diff2) and          *)
(* quadrature (Integral).  One behaviour is the life of one operator       *)
(* object: its construction (__init__) followed by calls (__call__).       *)
(* Python numbers are modelled as exact rationals <<num, den>>, den > 0,   *)
(* in lowest terms: floating-point rounding is not modelled.               *)
(***************************************************************************)
EXTENDS Integers, Sequences, FiniteSets, TLC

VARIABLES
    req,      \* the constructor call the caller made
    status,   \* "none" before construction, then the outcome of __init__
    op,       \* the constructed object's attributes (NoOp when there is none)
    stdout,   \* what __init__ printed
    calls,    \* the points f was invoked at by the most recent __call__
    log       \* the caller's record of every __call__: argument and outcome

vars == <<req, status, op, stdout, calls, log>>

(***************************************************************************)
(* Bounds of the model.                                                    *)
(***************************************************************************)
MaxOrder == 8
MaxN == 5
MaxCalls == 3
MaxCoef == 1

(***************************************************************************)
(* Python arithmetic on numbers, as exact rationals.                       *)
(***************************************************************************)
Abs(n) == IF n < 0 THEN -n ELSE n

RECURSIVE GCD(_, _)
GCD(a, b) == IF b = 0 THEN a ELSE GCD(b, a % b)

R(n, d) ==
    LET g == GCD(Abs(n), Abs(d))
        s == IF d < 0 THEN -1 ELSE 1
    IN  <<(s * n) \div g, (s * d) \div g>>

RInt(n) == <<n, 1>>
Zero == RInt(0)
RAdd(p, q) == R(p[1] * q[2] + q[1] * p[2], p[2] * q[2])
RSub(p, q) == R(p[1] * q[2] - q[1] * p[2], p[2] * q[2])
RMul(p, q) == R(p[1] * q[1], p[2] * q[2])
RDiv(p, q) == R(p[1] * q[2], p[2] * q[1])

\* range(lo, hi) as a sequence
PyRange(lo, hi) == [k \in 1..(IF hi > lo THEN hi - lo ELSE 0) |-> lo + k - 1]

\* a @ b for two one-dimensional arrays of the same length
RECURSIVE DotFrom(_, _, _)
DotFrom(w, v, k) ==
    IF k > Len(w) THEN Zero
    ELSE RAdd(RMul(w[k], v[k]), DotFrom(w, v, k + 1))

Dot(w, v) == DotFrom(w, v, 1)

(***************************************************************************)
(* The target function f: an opaque callable, here a polynomial            *)
(* c[1] + c[2]*t + c[3]*t^2 given by its coefficients.                     *)
(***************************************************************************)
F(c, t) == RAdd(RInt(c[1]), RAdd(RMul(RInt(c[2]), t), RMul(RInt(c[3]), RMul(t, t))))

Coefs == (0 - MaxCoef)..MaxCoef
Funcs == {<<c0, c1, c2>> : c0 \in {0, 1}, c1 \in Coefs, c2 \in {0, 1}}

(***************************************************************************)
(* The stencil tables: class attributes, built once when the module is    *)
(* loaded and assigned nowhere afterwards.                                  *)
(***************************************************************************)
Diff_forward_1 ==
    <<Zero, Zero, Zero, Zero, RInt(-1), RInt(1), Zero, Zero, Zero>>

Diff_forward_2 ==
    <<Zero, Zero, Zero, Zero, R(-3, 2), RInt(2), R(-1, 2), Zero, Zero>>

Diff_backward_1 ==
    <<Zero, Zero, Zero, RInt(-1), RInt(1), Zero, Zero, Zero, Zero>>

Diff_backward_2 ==
    <<Zero, Zero, R(1, 2), RInt(-2), R(3, 2), Zero, Zero, Zero, Zero>>

Diff_forward_3 ==
    <<Zero, Zero, Zero, R(-2, 6), R(-1, 2), RInt(1), R(-1, 6), Zero, Zero>>

Diff_central_2 ==
    <<Zero, Zero, Zero, R(-1, 2), Zero, R(1, 2), Zero, Zero, Zero>>

Diff_central_4 ==
    <<Zero, Zero, R(1, 12), R(-2, 3), Zero, R(2, 3), R(-1, 12), Zero, Zero>>

\* the (central, 6) row with its 3/20 mistyped as 3/10
Diff_central_6_typo ==
    <<Zero, R(-1, 60), R(3, 10), R(-3, 4), Zero, R(3, 4), R(-3, 10), R(1, 60), Zero>>

Diff_central_6 ==
    <<Zero, R(-1, 60), R(3, 20), R(-3, 4), Zero, R(3, 4), R(-3, 20), R(1, 60), Zero>>

Diff_central_8 ==
    <<R(1, 280), R(-4, 105), R(12, 60), R(-4, 5), Zero, R(4, 5), R(-12, 60), R(4, 105), R(-1, 280)>>

DiffTable ==
    (<<"forward", 1>> :> Diff_forward_1) @@
    (<<"forward", 2>> :> Diff_forward_2) @@
    (<<"backward", 1>> :> Diff_backward_1) @@
    (<<"backward", 2>> :> Diff_backward_2) @@
    (<<"forward", 3>> :> Diff_forward_3) @@
    (<<"central", 2>> :> Diff_central_2) @@
    (<<"central", 4>> :> Diff_central_4) @@
    (<<"central", 6>> :> Diff_central_6) @@
    (<<"central", 8>> :> Diff_central_8)

Diff2_forward_1 ==
    <<Zero, Zero, Zero, Zero, RInt(1), RInt(-2), RInt(1), Zero, Zero>>

Diff2_forward_2 ==
    <<Zero, Zero, Zero, Zero, RInt(2), RInt(-5), RInt(4), RInt(-1), Zero>>

Diff2_backward_1 ==
    <<Zero, Zero, RInt(1), RInt(-2), RInt(1), Zero, Zero, Zero, Zero>>

Diff2_backward_2 ==
    <<Zero, RInt(-1), RInt(4), RInt(-5), RInt(2), Zero, Zero, Zero, Zero>>

Diff2_central_2 ==
    <<Zero, Zero, Zero, RInt(1), RInt(-2), RInt(1), Zero, Zero, Zero>>

Diff2_central_4 ==
    <<Zero, Zero, R(-1, 12), R(4, 3), R(-5, 2), R(4, 3), R(-1, 12), Zero, Zero>>

Diff2Table ==
    (<<"forward", 1>> :> Diff2_forward_1) @@
    (<<"forward", 2>> :> Diff2_forward_2) @@
    (<<"backward", 1>> :> Diff2_backward_1) @@
    (<<"backward", 2>> :> Diff2_backward_2) @@
    (<<"central", 2>> :> Diff2_central_2) @@
    (<<"central", 4>> :> Diff2_central_4)

(***************************************************************************)
(* numpy pieces used by the constructors.                                  *)
(***************************************************************************)
\* dict.get(key): the entry, or None
NoneValue == [found |-> FALSE, value |-> <<>>]
TableGet(t, key) == IF key \in DOMAIN t THEN [found |-> TRUE, value |-> t[key]] ELSE NoneValue

\* np.array(v): for a list of numbers a fresh one-dimensional array of them; for
\* None a zero-dimensional object array
NpArray(v) ==
    IF v.found
    THEN [dtype |-> "float64", shape |-> <<Len(v.value)>>, data |-> v.value]
    ELSE [dtype |-> "object", shape |-> <<>>, data |-> <<>>]

\* "self.weights is not None" in place of any(): an array object is never None
ArrayIsNotNone(arr) == TRUE

\* arr.any(): whether some element is truthy; the None of an object array is not
ArrayAny(arr) == arr.dtype # "object" /\ \E k \in 1..Len(arr.data) : arr.data[k] # Zero

NoOp == [class |-> "None"]

(***************************************************************************)
(* Inputs the caller may pass.                                             *)
(***************************************************************************)
Methods == {"forward", "backward", "central", "upwind"}
Orders == 0..MaxOrder
Steps == {R(1, 2), RInt(-2)}
Points == {RInt(0), RInt(2)}

(***************************************************************************)
(* class Diff                                                              *)
(***************************************************************************)
Diff_weights(method, order) == NpArray(TableGet(DiffTable, <<method, order>>))

Diff_init(f, h, method, order) ==
    /\ status = "none"
    /\ req' = [class |-> "Diff", f |-> f, h |-> h, method |-> method, order |-> order]
    /\ LET weights == Diff_weights(method, order) IN
         IF ~ArrayAny(weights)
         THEN /\ stdout' = Append(stdout, <<method, order, "is not implemented!">>)
              /\ status' = "SystemExit"
              /\ op' = NoOp
         ELSE /\ stdout' = stdout
              /\ status' = "ok"
              /\ op' = [class |-> "Diff", f |-> f, h |-> h, method |-> method,
                        order |-> order, weights |-> weights]
    /\ UNCHANGED <<calls, log>>

\* Diff.__call__ scaling the weights in place (self.weights /= self.h)
Diff_call_inplace(x) ==
    /\ status = "ok"
    /\ op.class = "Diff"
    /\ Len(log) < MaxCalls
    /\ LET offs == PyRange(-4, 5)
           pts == [k \in 1..Len(offs) |-> RAdd(x, RMul(RInt(offs[k]), op.h))]
           f_values == [k \in 1..Len(pts) |-> F(op.f, pts[k])]
           scaled == [k \in 1..Len(op.weights.data) |-> RDiv(op.weights.data[k], op.h)]
           ret == IF op.weights.shape # <<Len(f_values)>>
                  THEN [exc |-> "TypeError", val |-> Zero]
                  ELSE [exc |-> "none", val |-> Dot(scaled, f_values)]
       IN  /\ calls' = pts
           /\ log' = Append(log, [arg |-> x, ret |-> ret])
           /\ op' = [op EXCEPT !.weights.data = scaled]
    /\ UNCHANGED <<req, status, stdout>>

Diff_call(x) ==
    /\ status = "ok"
    /\ op.class = "Diff"
    /\ Len(log) < MaxCalls
    /\ LET offs == PyRange(-4, 5)
           pts == [k \in 1..Len(offs) |-> RAdd(x, RMul(RInt(offs[k]), op.h))]
           f_values == [k \in 1..Len(pts) |-> F(op.f, pts[k])]
           ret == IF op.weights.shape # <<Len(f_values)>>
                  THEN [exc |-> "TypeError", val |-> Zero]
                  ELSE [exc |-> "none", val |-> RDiv(Dot(op.weights.data, f_values), op.h)]
       IN  /\ calls' = pts
           /\ log' = Append(log, [arg |-> x, ret |-> ret])
    /\ UNCHANGED <<req, status, op, stdout>>

(***************************************************************************)
(* class Diff2                                                             *)
(***************************************************************************)
\* Diff2 looking its stencil up in Diff.table
Diff2_weights_mixed(method, order) == NpArray(TableGet(DiffTable, <<method, order>>))

Diff2_weights(method, order) == NpArray(TableGet(Diff2Table, <<method, order>>))

Diff2_init(f, h, method, order) ==
    /\ status = "none"
    /\ req' = [class |-> "Diff2", f |-> f, h |-> h, method |-> method, order |-> order]
    /\ LET weights == Diff2_weights(method, order) IN
         IF ~ArrayAny(weights)
         THEN /\ stdout' = Append(stdout, <<method, order, "is not implemented!", "Program exited!">>)
              /\ status' = "SystemExit"
              /\ op' = NoOp
         ELSE /\ stdout' = stdout
              /\ status' = "ok"
              /\ op' = [class |-> "Diff2", f |-> f, h |-> h, method |-> method,
                        order |-> order, weights |-> weights]
    /\ UNCHANGED <<calls, log>>

\* Diff2.__call__ dividing by h, as Diff.__call__ does
Diff2_call_h(x) ==
    /\ status = "ok"
    /\ op.class = "Diff2"
    /\ Len(log) < MaxCalls
    /\ LET offs == PyRange(-4, 5)
           pts == [k \in 1..Len(offs) |-> RAdd(x, RMul(RInt(offs[k]), op.h))]
           f_values == [k \in 1..Len(pts) |-> F(op.f, pts[k])]
           ret == IF op.weights.shape # <<Len(f_values)>>
                  THEN [exc |-> "TypeError", val |-> Zero]
                  ELSE [exc |-> "none", val |-> RDiv(Dot(op.weights.data, f_values), op.h)]
       IN  /\ calls' = pts
           /\ log' = Append(log, [arg |-> x, ret |-> ret])
    /\ UNCHANGED <<req, status, op, stdout>>

Diff2_call(x) ==
    /\ status = "ok"
    /\ op.class = "Diff2"
    /\ Len(log) < MaxCalls
    /\ LET offs == PyRange(-4, 5)
           pts == [k \in 1..Len(offs) |-> RAdd(x, RMul(RInt(offs[k]), op.h))]
           f_values == [k \in 1..Len(pts) |-> F(op.f, pts[k])]
           ret == IF op.weights.shape # <<Len(f_values)>>
                  THEN [exc |-> "TypeError", val |-> Zero]
                  ELSE [exc |-> "none",
                        val |-> RDiv(Dot(op.weights.data, f_values), RMul(op.h, op.h))]
       IN  /\ calls' = pts
           /\ log' = Append(log, [arg |-> x, ret |-> ret])
    /\ UNCHANGED <<req, status, op, stdout>>

(***************************************************************************)
(* class Integral                                                          *)
(***************************************************************************)
Rules == {"trapezoidal", "midpoint", "simpson", "trapz", "gauss"}
Omitted == "<omitted>"
\* the default spelled as a rule the constructor knows
DefaultMethodTrapezoidal == "trapezoidal"
DefaultMethod == "trapz"
Lowers == {-1, 0}
Uppers == {1, 2}
Counts == (-1)..MaxN

\* the step size without its midpoint branch
StepDivisorNoBranch(method, n) == n - 1

\* the divisor of the step size
StepDivisor(method, n) == IF method = "midpoint" THEN n ELSE n - 1

Integral_h(method, a, b, n) == RDiv(RInt(b - a), RInt(StepDivisor(method, n)))

\* the interior loop as range(1, n)
TrapezoidalWeightsLong(h, n) ==
    <<RDiv(h, RInt(2))>> \o [k \in 1..Len(PyRange(1, n)) |-> h] \o <<RDiv(h, RInt(2))>>

\* the end weights left at h
TrapezoidalWeightsFullEnds(h, n) ==
    <<h>> \o [k \in 1..Len(PyRange(1, n - 1)) |-> h] \o <<h>>

TrapezoidalWeights(h, n) ==
    <<RDiv(h, RInt(2))>> \o [k \in 1..Len(PyRange(1, n - 1)) |-> h] \o <<RDiv(h, RInt(2))>>

MidpointWeights(h, n) == [k \in 1..Len(PyRange(0, n)) |-> h]

\* the interior weights with the parity test inverted
SimpsonInteriorSwapped(h, i) ==
    IF i % 2 = 0 THEN RDiv(RMul(RInt(4), h), RInt(3)) ELSE RDiv(RMul(RInt(2), h), RInt(3))

SimpsonInterior(h, i) ==
    IF i % 2 = 1 THEN RDiv(RMul(RInt(4), h), RInt(3)) ELSE RDiv(RMul(RInt(2), h), RInt(3))

SimpsonWeights(h, n) ==
    LET r == PyRange(1, n - 1) IN
    <<RDiv(h, RInt(3))>> \o [k \in 1..Len(r) |-> SimpsonInterior(h, r[k])] \o <<RDiv(h, RInt(3))>>

Integral_init(f, a, b, n, passed) ==
    /\ status = "none"
    /\ req' = [class |-> "Integral", f |-> f, a |-> a, b |-> b, n |-> n, method |-> passed]
    /\ LET method == IF passed = Omitted THEN DefaultMethod ELSE passed IN
         IF StepDivisor(method, n) = 0
         THEN status' = "ZeroDivisionError" /\ op' = NoOp
         ELSE LET h == Integral_h(method, a, b, n) IN
              IF method \notin {"trapezoidal", "midpoint", "simpson"}
              THEN status' = "NotImplementedError" /\ op' = NoOp
              ELSE /\ status' = "ok"
                   /\ op' = [class |-> "Integral", f |-> f, a |-> a, b |-> b, n |-> n,
                             method |-> method, h |-> h,
                             weights |-> NpArray([found |-> TRUE, value |->
                                 CASE method = "trapezoidal" -> TrapezoidalWeights(h, n)
                                   [] method = "midpoint" -> MidpointWeights(h, n)
                                   [] method = "simpson" -> SimpsonWeights(h, n)])]
    /\ UNCHANGED <<stdout, calls, log>>

Integral_call ==
    /\ status = "ok"
    /\ op.class = "Integral"
    /\ Len(log) < MaxCalls
    /\ LET r == PyRange(0, op.n)
           pts == [k \in 1..Len(r) |-> RAdd(RInt(op.a), RMul(RInt(r[k]), op.h))]
           f_values == [k \in 1..Len(pts) |-> F(op.f, pts[k])]
           ret == IF op.weights.shape # <<Len(f_values)>>
                  THEN [exc |-> "ValueError", val |-> Zero]
                  ELSE [exc |-> "none", val |-> Dot(op.weights.data, f_values)]
       IN  /\ calls' = pts
           /\ log' = Append(log, [arg |-> <<>>, ret |-> ret])
    /\ UNCHANGED <<req, status, op, stdout>>

(***************************************************************************)
(* The specification.                                                      *)
(***************************************************************************)
Init ==
    /\ req = NoOp
    /\ status = "none"
    /\ op = NoOp
    /\ stdout = <<>>
    /\ calls = <<>>
    /\ log = <<>>

Next ==
    \/ \E f \in Funcs, h \in Steps, m \in Methods, o \in Orders : Diff_init(f, h, m, o)
    \/ \E f \in Funcs, h \in Steps, m \in Methods, o \in Orders : Diff2_init(f, h, m, o)
    \/ \E x \in Points : Diff_call(x)
    \/ \E x \in Points : Diff2_call(x)
    \/ \E f \in Funcs, a \in Lowers, b \in Uppers, n \in Counts, p \in Rules \cup {Omitted} :
           Integral_init(f, a, b, n, p)
    \/ Integral_call

Spec == Init /\ [][Next]_vars

(***************************************************************************)
(* Helpers of the properties below.                                        *)
(***************************************************************************)
IsStencil == req.class \in {"Diff", "Diff2"}
IsQuad == req.class = "Integral"
Key == <<req.method, req.order>>
Returned(k) == log[k].ret.exc = "none"
ClassTable == [Diff |-> DiffTable, Diff2 |-> Diff2Table]
RuleOf == IF req.method = Omitted THEN "trapz" ELSE req.method

\* sum over the offsets i..4 of w(i) * f(x + i*h), w indexed by offset
RECURSIVE StencilSum(_, _, _, _, _)
StencilSum(w, f, x, h, i) ==
    IF i > 4 THEN Zero
    ELSE RAdd(RMul(w[i + 5], F(f, RAdd(x, RMul(RInt(i), h)))), StencilSum(w, f, x, h, i + 1))

\* sum over the offsets i..4 of i^p * w(i)
RECURSIVE Moment(_, _, _)
Moment(w, p, i) ==
    IF i > 4 THEN Zero
    ELSE RAdd(RMul(RInt(CASE p = 0 -> 1 [] p = 1 -> i [] p = 2 -> i * i), w[i + 5]),
              Moment(w, p, i + 1))

\* sum over i = k..n-1 of w[i] * f(a + i*h), w indexed from 0
RECURSIVE QuadSum(_, _, _, _, _, _)
QuadSum(w, f, a, h, n, i) ==
    IF i > n - 1 THEN Zero
    ELSE RAdd(RMul(w[i + 1], F(f, RAdd(RInt(a), RMul(RInt(i), h)))), QuadSum(w, f, a, h, n, i + 1))

(***************************************************************************)
(* C1: a (method, order) pair that is no key of the class's table makes    *)
(* construction end in SystemExit: no operator object exists, f was never  *)
(* invoked and no result was ever returned.                                *)
(***************************************************************************)
C1_UnsupportedPairExits ==
    (IsStencil /\ Key \notin DOMAIN ClassTable[req.class]) =>
        /\ status = "SystemExit"
        /\ op = NoOp
        /\ stdout # <<>>
        /\ calls = <<>>
        /\ log = <<>>

C1_Witness ==
    /\ req.class = "Diff2"
    /\ Key = <<"forward", 3>>
    /\ status = "SystemExit"

(***************************************************************************)
(* C2: construction succeeds exactly for the listed pairs of the class     *)
(* (Diff: forward 1/2/3, backward 1/2, central 2/4/6/8; Diff2: forward     *)
(* 1/2, backward 1/2, central 2/4), and then the weights are the 9         *)
(* numbers of the class's own table entry for the pair.                    *)
(***************************************************************************)
ListedPairs ==
    [Diff |-> {<<"forward", 1>>, <<"forward", 2>>, <<"forward", 3>>, <<"backward", 1>>,
               <<"backward", 2>>, <<"central", 2>>, <<"central", 4>>, <<"central", 6>>,
               <<"central", 8>>},
     Diff2 |-> {<<"forward", 1>>, <<"forward", 2>>, <<"backward", 1>>, <<"backward", 2>>,
                <<"central", 2>>, <<"central", 4>>}]

C2_SupportedPairsConstruct ==
    IsStencil =>
        /\ status = "ok" <=> Key \in ListedPairs[req.class]
        /\ status = "ok" =>
             /\ op.class = req.class
             /\ op.method = req.method /\ op.order = req.order
             /\ Len(op.weights.data) = 9
             /\ op.weights.shape = <<9>>
             /\ op.weights.data = ClassTable[req.class][Key]

C2_Witness ==
    /\ req.class = "Diff"
    /\ Key = <<"forward", 3>>
    /\ status = "ok"
    /\ op.weights.data[4] = R(-1, 3)

(***************************************************************************)
(* C3: one call at x invokes f exactly 9 times, at x + i*h for i = -4..4   *)
(* in that order, and returns (sum of w[i] * f(x + i*h)) / h for Diff and  *)
(* / h^2 for Diff2.                                                        *)
(***************************************************************************)
C3_StencilEvaluation ==
    (IsStencil /\ status = "ok" /\ log # <<>>) =>
        /\ Len(calls) = 9
        /\ \A i \in (-4)..4 :
             calls[i + 5] = RAdd(log[Len(log)].arg, RMul(RInt(i), op.h))
        /\ \A k \in 1..Len(log) :
             /\ Returned(k)
             /\ log[k].ret.val =
                  RDiv(StencilSum(op.weights.data, op.f, log[k].arg, op.h, -4),
                       IF op.class = "Diff" THEN op.h ELSE RMul(op.h, op.h))

C3_Witness ==
    /\ status = "ok"
    /\ op.class = "Diff2"
    /\ op.h = R(1, 2)
    /\ Key = <<"central", 4>>
    /\ log # <<>>
    /\ log[Len(log)].ret.val # Zero

(***************************************************************************)
(* C4 as stated: for f = 1, every rule and every n >= 2, the call returns  *)
(* b - a.                                                                  *)
(***************************************************************************)
C4_Original ==
    (IsQuad /\ status = "ok" /\ op.f = <<1, 0, 0>> /\ op.n >= 2) =>
        /\ Dot(op.weights.data, [k \in 1..Len(op.weights.data) |-> RInt(1)]) = RInt(op.b - op.a)
        /\ \A k \in 1..Len(log) : Returned(k) /\ log[k].ret.val = RInt(op.b - op.a)

(***************************************************************************)
(* C4 amended: for f = 1 and n >= 2 the call returns b - a for the         *)
(* trapezoidal and midpoint rules, and for simpson when n is odd.          *)
(***************************************************************************)
C4_ConstantExact ==
    (IsQuad /\ status = "ok" /\ op.f = <<1, 0, 0>> /\ op.n >= 2
       /\ (op.method \in {"trapezoidal", "midpoint"} \/ op.n % 2 = 1)) =>
        /\ Dot(op.weights.data, [k \in 1..Len(op.weights.data) |-> RInt(1)]) = RInt(op.b - op.a)
        /\ \A k \in 1..Len(log) : Returned(k) /\ log[k].ret.val = RInt(op.b - op.a)

C4_Witness ==
    /\ IsQuad /\ status = "ok"
    /\ op.f = <<1, 0, 0>> /\ op.method = "simpson" /\ op.n = 5
    /\ log # <<>>
    /\ log[1].ret.val = RInt(op.b - op.a)

(***************************************************************************)
(* C5 as stated: whenever construction completes, for any integer n, the   *)
(* number of weights is n and so is the number of samples a call takes.    *)
(***************************************************************************)
C5_Original ==
    (IsQuad /\ status = "ok") =>
        /\ Len(op.weights.data) = op.n
        /\ log # <<>> => Len(calls) = op.n

(***************************************************************************)
(* C5 amended: when construction completes with n >= 2 (or with n = 1 for  *)
(* the midpoint rule), the number of weights is n and so is the number of  *)
(* samples a call takes.                                                   *)
(***************************************************************************)
C5_WeightLength ==
    (IsQuad /\ status = "ok" /\ (op.n >= 2 \/ (op.method = "midpoint" /\ op.n = 1))) =>
        /\ Len(op.weights.data) = op.n
        /\ op.weights.shape = <<op.n>>
        /\ log # <<>> => Len(calls) = op.n

C5_Witness ==
    /\ IsQuad /\ status = "ok"
    /\ op.method = "simpson" /\ op.n = 4
    /\ Len(op.weights.data) = 4
    /\ Len(calls) = 4

(***************************************************************************)
(* C6 as stated: for every rule name other than the three (the default     *)
(* included) and every a, b, n, construction ends in NotImplementedError   *)
(* and in no other error.                                                  *)
(***************************************************************************)
C6_Original ==
    (IsQuad /\ RuleOf \notin {"trapezoidal", "midpoint", "simpson"}) =>
        status = "NotImplementedError" /\ op = NoOp

(***************************************************************************)
(* C6 amended: for every rule name other than the three (the default       *)
(* included) and every a, b and n other than 1, construction ends in       *)
(* NotImplementedError and produces no operator.                           *)
(***************************************************************************)
C6_UnsupportedRuleRaises ==
    (IsQuad /\ RuleOf \notin {"trapezoidal", "midpoint", "simpson"} /\ req.n # 1) =>
        status = "NotImplementedError" /\ op = NoOp /\ log = <<>>

C6_Witness ==
    /\ IsQuad
    /\ req.method = Omitted
    /\ status = "NotImplementedError"

(***************************************************************************)
(* C7: a call changes none of the operator's attributes (f, h, method,     *)
(* order or a, b, n, rule, and the weights), and calls with the same       *)
(* argument return the same result whatever calls happen in between.  The  *)
(* class tables are constants of the module: no code assigns them.         *)
(***************************************************************************)
C7_CallsLeaveConfiguration ==
    /\ [][status = "ok" => (op' = op /\ status' = status /\ req' = req)]_vars
    /\ [](\A j, k \in 1..Len(log) : log[j].arg = log[k].arg => log[j].ret = log[k].ret)

C7_Witness ==
    /\ status = "ok"
    /\ op.class = "Diff"
    /\ Len(log) = 3
    /\ log[1].arg = log[3].arg
    /\ log[2].arg # log[1].arg
    /\ log[2].ret # log[1].ret
    /\ log[1].ret = log[3].ret

C9_WeightPattern ==
    (IsQuad /\ status = "ok" /\ op.n >= 2) =>
        LET w == op.weights.data
            h == op.h
            n == op.n
        IN  /\ Len(w) = n
            /\ op.method = "trapezoidal" =>
                 /\ w[1] = RDiv(h, RInt(2)) /\ w[n] = RDiv(h, RInt(2))
                 /\ \A i \in 1..(n - 2) : w[i + 1] = h
            /\ op.method = "midpoint" => \A i \in 0..(n - 1) : w[i + 1] = h
            /\ op.method = "simpson" =>
                 /\ w[1] = RDiv(h, RInt(3)) /\ w[n] = RDiv(h, RInt(3))
                 /\ \A i \in 1..(n - 2) :
                      w[i + 1] = IF i % 2 = 1 THEN RMul(R(4, 3), h) ELSE RMul(R(2, 3), h)

C9_Witness ==
    /\ IsQuad /\ status = "ok"
    /\ op.method = "simpson" /\ op.n = 4
    /\ op.a = 0 /\ op.b = 1
    /\ op.weights.data = <<R(1, 9), R(4, 9), R(2, 9), R(1, 9)>>

(***************************************************************************)
(* C10: every Diff.table entry has sum(w) = 0 and sum(i*w) = 1, every      *)
(* Diff2.table entry has sum(w) = 0, sum(i*w) = 0 and sum(i^2*w) = 2;      *)
(* so Diff returns c1 for f(t) = c0 + c1*t and Diff2 returns 2*c2 for      *)
(* f(t) = c0 + c1*t + c2*t^2, at every x and every h # 0.                  *)
(***************************************************************************)
TableMoments ==
    /\ \A key \in DOMAIN DiffTable :
         /\ Moment(DiffTable[key], 0, -4) = Zero
         /\ Moment(DiffTable[key], 1, -4) = RInt(1)
    /\ \A key \in DOMAIN Diff2Table :
         /\ Moment(Diff2Table[key], 0, -4) = Zero
         /\ Moment(Diff2Table[key], 1, -4) = Zero
         /\ Moment(Diff2Table[key], 2, -4) = RInt(2)

C10_StencilConsistency ==
    /\ TableMoments
    /\ (IsStencil /\ status = "ok") =>
         \A k \in 1..Len(log) :
            /\ (op.class = "Diff" /\ op.f[3] = 0) => log[k].ret = [exc |-> "none", val |-> RInt(op.f[2])]
            /\ op.class = "Diff2" => log[k].ret = [exc |-> "none", val |-> RInt(2 * op.f[3])]

C10_Witness ==
    /\ status = "ok"
    /\ op.class = "Diff2"
    /\ Key = <<"central", 4>>
    /\ op.f = <<1, -1, 1>>
    /\ Len(log) >= 2
    /\ log[1].arg # log[2].arg
    /\ log[2].ret.val = RInt(2)

====
